---- MODULE Spec2Model ----
(***************************************************************************)
(* Model of the algoview container engines: the binary search tree and     *)
(* AVL tree entry points (src/algorithm/Bst.ts, Avl.ts), the SkipList      *)
(* class (src/algorithm/SkipList.ts), the HashTable class                 *)
(* (src/unnamed/part_001) and the SinglyLinkedList and DoublyLinkedList    *)
(* classes (src/unnamed/part_002).  A caller                               *)
(* owns one container and applies operations to it one after another; for  *)
(* the trees every call is given the tree the previous call returned.      *)
(* The benchmark (src/lib/benchmarking.ts) instead calls an entry point,   *)
(* runSkipListAlgorithm, runHashAlgorithm and runLinkedListAlgorithm       *)
(* included, repeatedly on one tree and drops what it returns.             *)
(***************************************************************************)
EXTENDS Integers, Sequences, FiniteSets, TLC

(***************************************************************************)
(* Bounds of the model.                                                    *)
(***************************************************************************)
\* tree values are drawn from -MaxNeg .. MaxVal
MaxNeg == 1
MaxVal == 4
Values == (0 - MaxNeg)..MaxVal
\* hash-table keys are 0 .. MaxKey, capacities 2 .. MaxSize
\* skip-list values are 1 .. MaxSkip, and MaxLevel is the maxLevel the
\* SkipList is constructed with
MaxSkip == 3
MaxLevel == 2
SkipValues == 1..MaxSkip
MaxKey == 4
MaxSize == 4
Keys == 0..MaxKey
Sizes == 2..MaxSize
\* linked-list values are 1 .. MaxListVal, a list holds at most MaxListLen
\* elements, positions run from -1 to one past the largest size
MaxListVal == 3
MaxListLen == 3
\* the trees handed to the entry points under benchmark hold values of
\* 0 .. MaxBench
MaxBench == 2
ListValues == 1..MaxListVal
Positions == (0 - 1)..(MaxListLen + 1)

Max(a, b) == IF a >= b THEN a ELSE b

\* JavaScript null
Null == [null |-> TRUE]

(***************************************************************************)
(* TreeNode of lib/definitions.ts: an absent isEmpty is FALSE, an absent   *)
(* children array is the empty sequence (the code reads both the same).    *)
(***************************************************************************)
UINode(v, ch) == [value |-> v, isEmpty |-> FALSE, children |-> ch]
EmptyTree == [value |-> 0, isEmpty |-> TRUE, children |-> <<>>]

(***************************************************************************)
(* Bst.ts                                                                  *)
(***************************************************************************)
RECURSIVE convertToBSTFormat(_)
convertToBSTFormat(uiNode) ==
  IF uiNode.isEmpty THEN Null
  ELSE LET ch == uiNode.children IN
       [value |-> uiNode.value,
        left  |-> IF Len(ch) > 0 /\ ~ch[1].isEmpty
                  THEN convertToBSTFormat(ch[1]) ELSE Null,
        right |-> IF Len(ch) > 1 /\ ~ch[2].isEmpty
                  THEN convertToBSTFormat(ch[2]) ELSE Null]

\* the two converters build the same TreeNode shape from left/right
RECURSIVE BST_convertToUIFormat(_)
BST_convertToUIFormat(bstNode) ==
  IF bstNode = Null THEN EmptyTree
  ELSE IF bstNode.left # Null /\ bstNode.right # Null
       THEN UINode(bstNode.value, << BST_convertToUIFormat(bstNode.left),
                                     BST_convertToUIFormat(bstNode.right) >>)
  ELSE IF bstNode.left # Null
       THEN UINode(bstNode.value, << BST_convertToUIFormat(bstNode.left) >>)
  ELSE IF bstNode.right # Null
       THEN UINode(bstNode.value, << EmptyTree,
                                     BST_convertToUIFormat(bstNode.right) >>)
  ELSE UINode(bstNode.value, <<>>)

RECURSIVE BST_insertNode(_, _)
BST_insertNode(root, value) ==
  IF root = Null THEN [value |-> value, left |-> Null, right |-> Null]
  ELSE IF value = root.value THEN root
  ELSE IF value < root.value
       THEN [root EXCEPT !.left = BST_insertNode(root.left, value)]
       ELSE [root EXCEPT !.right = BST_insertNode(root.right, value)]

RECURSIVE searchNode(_, _)
searchNode(root, value) ==
  IF root = Null THEN FALSE
  ELSE IF value = root.value THEN TRUE
  ELSE IF value < root.value THEN searchNode(root.left, value)
  ELSE searchNode(root.right, value)

\* minValue without the walk to the leftmost node
BST_minValue_NoDescent(node) == node.value

RECURSIVE BST_minValue(_)
BST_minValue(node) ==
  IF node.left # Null THEN BST_minValue(node.left) ELSE node.value

RECURSIVE BST_deleteNode(_, _)
BST_deleteNode(root, value) ==
  IF root = Null THEN Null
  ELSE IF value < root.value
       THEN [root EXCEPT !.left = BST_deleteNode(root.left, value)]
  ELSE IF value > root.value
       THEN [root EXCEPT !.right = BST_deleteNode(root.right, value)]
  ELSE IF root.left = Null /\ root.right = Null THEN Null
  ELSE IF root.left = Null THEN root.right
  ELSE IF root.right = Null THEN root.left
  ELSE LET m == BST_minValue(root.right) IN
       [root EXCEPT !.value = m, !.right = BST_deleteNode(root.right, m)]

\* -Infinity and Infinity are absent bounds (hasLower / hasUpper FALSE)
RECURSIVE findNodeAndBounds(_, _, _)
findNodeAndBounds(node, value, b) ==
  IF node = Null THEN [b EXCEPT !.found = FALSE]
  ELSE IF node.value = value THEN [b EXCEPT !.found = TRUE]
  ELSE IF value < node.value
       THEN findNodeAndBounds(node.left, value,
              [b EXCEPT !.hasUpper = TRUE, !.upperBound = node.value])
       ELSE findNodeAndBounds(node.right, value,
              [b EXCEPT !.hasLower = TRUE, !.lowerBound = node.value])

\* isValidUpdate that only looks for the node
isValidUpdate_NoBounds(root, oldValue, newValue) ==
  IF root = Null THEN TRUE
  ELSE findNodeAndBounds(root, oldValue,
         [found |-> FALSE, hasLower |-> FALSE, lowerBound |-> 0,
          hasUpper |-> FALSE, upperBound |-> 0]).found

isValidUpdate(root, oldValue, newValue) ==
  IF root = Null THEN TRUE
  ELSE LET nodeInfo == findNodeAndBounds(root, oldValue,
                         [found |-> FALSE, hasLower |-> FALSE, lowerBound |-> 0,
                          hasUpper |-> FALSE, upperBound |-> 0])
       IN IF ~nodeInfo.found THEN FALSE
          ELSE /\ (nodeInfo.hasLower => newValue > nodeInfo.lowerBound)
               /\ (nodeInfo.hasUpper => newValue < nodeInfo.upperBound)

updateNode(root, oldValue, newValue) ==
  LET oldExists == searchNode(root, oldValue)
      newExists == oldValue # newValue /\ searchNode(root, newValue)
  IN IF ~oldExists THEN [tree |-> root, success |-> FALSE]
     ELSE IF newExists THEN [tree |-> root, success |-> FALSE]
     ELSE IF ~isValidUpdate(root, oldValue, newValue)
          THEN [tree |-> root, success |-> FALSE]
     ELSE [tree |-> BST_insertNode(BST_deleteNode(root, oldValue), newValue),
           success |-> TRUE]

\* options.newValue || 0 is newValue itself for every number
runBSTAlgorithm(treeData, operation, value, newValue) ==
  LET bstTree == convertToBSTFormat(treeData)
      res ==
        CASE operation = "insert" ->
               IF searchNode(bstTree, value)
               THEN [tree |-> bstTree, success |-> FALSE]
               ELSE [tree |-> BST_insertNode(bstTree, value), success |-> TRUE]
          [] operation = "delete" ->
               IF ~searchNode(bstTree, value)
               THEN [tree |-> bstTree, success |-> FALSE]
               ELSE IF bstTree # Null /\ bstTree.value = value
                       /\ bstTree.left = Null /\ bstTree.right = Null
                    THEN [tree |-> Null, success |-> TRUE]
               ELSE [tree |-> BST_deleteNode(bstTree, value), success |-> TRUE]
          [] operation = "search" ->
               [tree |-> bstTree, success |-> searchNode(bstTree, value)]
          [] operation = "update" -> updateNode(bstTree, value, newValue)
          [] OTHER -> [tree |-> bstTree, success |-> FALSE]
  IN [newTree |-> BST_convertToUIFormat(res.tree), success |-> res.success]

(***************************************************************************)
(* Avl.ts                                                                  *)
(***************************************************************************)
RECURSIVE collectAllValues(_)
collectAllValues(node) ==
  IF node = Null THEN <<>>
  ELSE <<node.value>> \o collectAllValues(node.left)
                      \o collectAllValues(node.right)

\* Array.prototype.includes
includes(arr, v) == \E i \in 1..Len(arr) : arr[i] = v

getHeight(node) == IF node = Null THEN 0 ELSE node.height

getBalance(node) ==
  IF node = Null THEN 0 ELSE getHeight(node.left) - getHeight(node.right)

RECURSIVE convertToAVLFormat(_)
convertToAVLFormat(uiNode) ==
  IF uiNode.isEmpty THEN Null
  ELSE IF uiNode.value = 0 /\ Len(uiNode.children) = 0 THEN Null
  ELSE LET ch == uiNode.children
           l  == IF Len(ch) > 0 THEN convertToAVLFormat(ch[1]) ELSE Null
           r  == IF Len(ch) > 1 THEN convertToAVLFormat(ch[2]) ELSE Null
       IN [value |-> uiNode.value, left |-> l, right |-> r,
           height |-> IF Len(ch) > 0
                      THEN Max(getHeight(l), getHeight(r)) + 1 ELSE 1]

RECURSIVE AVL_convertToUIFormat(_)
AVL_convertToUIFormat(avlNode) ==
  IF avlNode = Null THEN EmptyTree
  ELSE IF avlNode.left # Null /\ avlNode.right # Null
       THEN UINode(avlNode.value, << AVL_convertToUIFormat(avlNode.left),
                                     AVL_convertToUIFormat(avlNode.right) >>)
  ELSE IF avlNode.left # Null
       THEN UINode(avlNode.value, << AVL_convertToUIFormat(avlNode.left) >>)
  ELSE IF avlNode.right # Null
       THEN UINode(avlNode.value, << EmptyTree,
                                     AVL_convertToUIFormat(avlNode.right) >>)
  ELSE UINode(avlNode.value, <<>>)

\* rightRotate that leaves the height of y as it was
rightRotate_StaleHeight(y) ==
  LET x  == y.left
      T2 == x.right
      y2 == [y EXCEPT !.left = T2]
  IN [x EXCEPT !.right = y2,
               !.height = Max(getHeight(x.left), getHeight(y2)) + 1]

rightRotate(y) ==
  LET x  == y.left
      T2 == x.right
      y2 == [y EXCEPT !.left = T2,
                      !.height = Max(getHeight(T2), getHeight(y.right)) + 1]
  IN [x EXCEPT !.right = y2,
               !.height = Max(getHeight(x.left), getHeight(y2)) + 1]

leftRotate(x) ==
  LET y  == x.right
      T2 == y.left
      x2 == [x EXCEPT !.right = T2,
                      !.height = Max(getHeight(x.left), getHeight(T2)) + 1]
  IN [y EXCEPT !.left = x2,
               !.height = Max(getHeight(x2), getHeight(y.right)) + 1]

RECURSIVE AVL_insertNode(_, _)
AVL_insertNode(node, value) ==
  IF node = Null
  THEN [value |-> value, left |-> Null, right |-> Null, height |-> 1]
  ELSE IF value = node.value THEN node
  ELSE LET n1 == IF value < node.value
                 THEN [node EXCEPT !.left = AVL_insertNode(node.left, value)]
                 ELSE [node EXCEPT !.right = AVL_insertNode(node.right, value)]
           newNode == [n1 EXCEPT !.height =
                          Max(getHeight(n1.left), getHeight(n1.right)) + 1]
           balance == getBalance(newNode)
       IN IF balance > 1 /\ newNode.left # Null /\ value < newNode.left.value
          THEN rightRotate(newNode)
          ELSE IF balance < -1 /\ newNode.right # Null
                  /\ value > newNode.right.value
          THEN leftRotate(newNode)
          ELSE IF balance > 1 /\ newNode.left # Null
                  /\ value > newNode.left.value
          THEN rightRotate([newNode EXCEPT !.left = leftRotate(newNode.left)])
          ELSE IF balance < -1 /\ newNode.right # Null
                  /\ value < newNode.right.value
          THEN leftRotate([newNode EXCEPT !.right = rightRotate(newNode.right)])
          ELSE newNode

RECURSIVE AVL_minValue(_)
AVL_minValue(node) ==
  IF node.left # Null THEN AVL_minValue(node.left) ELSE node.value

RECURSIVE AVL_deleteNode(_, _)
AVL_deleteNode(root, value) ==
  IF root = Null THEN Null
  ELSE IF value = root.value /\ root.left = Null THEN root.right
  ELSE IF value = root.value /\ root.right = Null THEN root.left
  ELSE LET r1 == IF value < root.value
                 THEN [root EXCEPT !.left = AVL_deleteNode(root.left, value)]
                 ELSE IF value > root.value
                 THEN [root EXCEPT !.right = AVL_deleteNode(root.right, value)]
                 ELSE LET m == AVL_minValue(root.right) IN
                      [root EXCEPT !.value = m,
                                   !.right = AVL_deleteNode(root.right, m)]
           r2 == [r1 EXCEPT !.height =
                     Max(getHeight(r1.left), getHeight(r1.right)) + 1]
           balance == getBalance(r2)
       IN IF balance > 1 /\ getBalance(r2.left) >= 0
          THEN rightRotate(r2)
          ELSE IF balance > 1 /\ getBalance(r2.left) < 0 /\ r2.left # Null
          THEN rightRotate([r2 EXCEPT !.left = leftRotate(r2.left)])
          ELSE IF balance < -1 /\ getBalance(r2.right) <= 0
          THEN leftRotate(r2)
          ELSE IF balance < -1 /\ getBalance(r2.right) > 0 /\ r2.right # Null
          THEN leftRotate([r2 EXCEPT !.right = rightRotate(r2.right)])
          ELSE r2

RECURSIVE isTreeBalanced(_)
isTreeBalanced(node) ==
  IF node = Null THEN TRUE
  ELSE IF getBalance(node) > 1 \/ getBalance(node) < -1 THEN FALSE
  ELSE isTreeBalanced(node.left) /\ isTreeBalanced(node.right)

RECURSIVE inOrderTraversal(_)
inOrderTraversal(node) ==
  IF node = Null THEN <<>>
  ELSE inOrderTraversal(node.left) \o <<node.value>>
                                   \o inOrderTraversal(node.right)

\* values is 1-indexed here: start and end are the code's indices plus one
RECURSIVE buildBalancedTree(_, _, _)
buildBalancedTree(values, start, end) ==
  IF start > end THEN Null
  ELSE LET mid == ((start - 1) + (end - 1)) \div 2 + 1
           l   == buildBalancedTree(values, start, mid - 1)
           r   == buildBalancedTree(values, mid + 1, end)
       IN [value |-> values[mid], left |-> l, right |-> r,
           height |-> Max(getHeight(l), getHeight(r)) + 1]

rebuildBalancedTree(root) ==
  IF root = Null THEN Null
  ELSE LET values == inOrderTraversal(root)
       IN buildBalancedTree(values, 1, Len(values))

runAVLAlgorithm(treeData, operation, value, newValue) ==
  LET avlTree   == convertToAVLFormat(treeData)
      allValues == collectAllValues(avlTree)
      res ==
        CASE operation = "insert" ->
               IF includes(allValues, value)
               THEN [tree |-> avlTree, success |-> FALSE]
               ELSE [tree |-> AVL_insertNode(avlTree, value), success |-> TRUE]
          [] operation = "delete" ->
               IF ~includes(allValues, value)
               THEN [tree |-> avlTree, success |-> FALSE]
               ELSE IF avlTree # Null /\ avlTree.value = value
                       /\ avlTree.left = Null /\ avlTree.right = Null
                    THEN [tree |-> Null, success |-> TRUE]
               ELSE [tree |-> AVL_deleteNode(avlTree, value), success |-> TRUE]
          [] operation = "search" ->
               [tree |-> avlTree, success |-> includes(allValues, value)]
          [] operation = "update" ->
               IF ~includes(allValues, value)
               THEN [tree |-> avlTree, success |-> FALSE]
               ELSE IF value # newValue /\ includes(allValues, newValue)
               THEN [tree |-> avlTree, success |-> FALSE]
               ELSE [tree |-> AVL_insertNode(AVL_deleteNode(avlTree, value),
                                             newValue),
                     success |-> TRUE]
          [] operation = "balance" ->
               IF isTreeBalanced(avlTree)
               THEN [tree |-> avlTree, success |-> TRUE]
               ELSE [tree |-> rebuildBalancedTree(avlTree), success |-> TRUE]
          [] OTHER -> [tree |-> avlTree, success |-> FALSE]
  IN [newTree |-> AVL_convertToUIFormat(res.tree), success |-> res.success]

(***************************************************************************)
(* HashTable (src/unnamed/part_001, lines 365-601)                         *)
(***************************************************************************)
Strategies == {"chaining", "linear-probing", "double-hashing"}

\* String(key).charCodeAt(i) for an integer key: '-' is 45, '0'..'9' 48..57
RECURSIVE charCodes(_)
charCodes(key) ==
  IF key < 0 THEN <<45>> \o charCodes(0 - key)
  ELSE IF key < 10 THEN <<48 + key>>
  ELSE charCodes(key \div 10) \o <<48 + (key % 10)>>

RECURSIVE horner(_, _, _, _, _)
horner(codes, i, acc, prime, modulus) ==
  IF i > Len(codes) THEN acc
  ELSE horner(codes, i + 1, (acc * prime + codes[i]) % modulus, prime, modulus)

hash(ht, key) == horner(charCodes(key), 1, 0, 31, ht.size)

hash2(ht, key) == 1 + horner(charCodes(key), 1, 0, 17, ht.size - 1)

HashTable_new(size, collisionStrategy) ==
  [table |-> [i \in 0..(size - 1) |-> <<>>], size |-> size,
   collisionStrategy |-> collisionStrategy]

\* the step of the probe sequence: +i for linear probing, +i*step for
\* double hashing
probeStep(ht, key) ==
  IF ht.collisionStrategy = "double-hashing" THEN hash2(ht, key) ELSE 1

\* a return value of search: undefined, or the stored value
Undefined == [defined |-> FALSE, value |-> 0]
Defined(v) == [defined |-> TRUE, value |-> v]

\* the bucket scan of the chaining branches: index of the first item with
\* the key, 0 if there is none
RECURSIVE bucketIndex(_, _, _)
bucketIndex(bucket, key, i) ==
  IF i > Len(bucket) THEN 0
  ELSE IF bucket[i].key = key THEN i
  ELSE bucketIndex(bucket, key, i + 1)

\* the probe loop of search and delete: the slot that holds the key, or -1
\* once an empty slot is met or size slots have been tried
RECURSIVE findSlot(_, _, _, _, _)
findSlot(ht, key, hashIndex, step, i) ==
  LET probeIndex == (hashIndex + i * step) % ht.size
      bucket == ht.table[probeIndex]
  IN IF Len(bucket) = 0 THEN -1
     ELSE IF bucket[1].key = key THEN probeIndex
     ELSE IF i + 1 >= ht.size THEN -1
     ELSE findSlot(ht, key, hashIndex, step, i + 1)

\* the probe loop of insert without the "table is full" exit: after size
\* slots it settles on the slot it started from
RECURSIVE emptySlot_NoFullCheck(_, _, _, _)
emptySlot_NoFullCheck(ht, hashIndex, step, i) ==
  LET probeIndex == (hashIndex + i * step) % ht.size
  IN IF Len(ht.table[probeIndex]) = 0 THEN probeIndex
     ELSE IF i + 1 >= ht.size THEN hashIndex
     ELSE emptySlot_NoFullCheck(ht, hashIndex, step, i + 1)

\* the probe loop of insert: the first empty slot, or -1 when size slots
\* have been tried
RECURSIVE emptySlot(_, _, _, _)
emptySlot(ht, hashIndex, step, i) ==
  LET probeIndex == (hashIndex + i * step) % ht.size
  IN IF Len(ht.table[probeIndex]) = 0 THEN probeIndex
     ELSE IF i + 1 >= ht.size THEN -1
     ELSE emptySlot(ht, hashIndex, step, i + 1)

\* the probe loop of search and delete with i > size as its exit test
RECURSIVE findSlotProbes_OffByOne(_, _, _, _, _)
findSlotProbes_OffByOne(ht, key, hashIndex, step, i) ==
  LET probeIndex == (hashIndex + i * step) % ht.size
      bucket == ht.table[probeIndex]
  IN IF Len(bucket) = 0 THEN i + 1
     ELSE IF bucket[1].key = key THEN i + 1
     ELSE IF i + 1 > ht.size THEN i + 1
     ELSE findSlotProbes_OffByOne(ht, key, hashIndex, step, i + 1)

\* the number of slots the probe loop of search and delete reads: one per
\* evaluation of its while condition
RECURSIVE findSlotProbes(_, _, _, _, _)
findSlotProbes(ht, key, hashIndex, step, i) ==
  LET probeIndex == (hashIndex + i * step) % ht.size
      bucket == ht.table[probeIndex]
  IN IF Len(bucket) = 0 THEN i + 1
     ELSE IF bucket[1].key = key THEN i + 1
     ELSE IF i + 1 >= ht.size THEN i + 1
     ELSE findSlotProbes(ht, key, hashIndex, step, i + 1)

\* the number of slots the probe loop of insert reads
RECURSIVE emptySlotProbes(_, _, _, _)
emptySlotProbes(ht, hashIndex, step, i) ==
  LET probeIndex == (hashIndex + i * step) % ht.size
  IN IF Len(ht.table[probeIndex]) = 0 THEN i + 1
     ELSE IF i + 1 >= ht.size THEN i + 1
     ELSE emptySlotProbes(ht, hashIndex, step, i + 1)

HashTable_search(ht, key) ==
  LET hashIndex == hash(ht, key)
  IN IF ht.collisionStrategy = "chaining"
     THEN LET i == bucketIndex(ht.table[hashIndex], key, 1)
          IN IF i = 0 THEN Undefined ELSE Defined(ht.table[hashIndex][i].value)
     ELSE LET p == findSlot(ht, key, hashIndex, probeStep(ht, key), 0)
          IN IF p = -1 THEN Undefined ELSE Defined(ht.table[p][1].value)

HashTable_insert(ht, key, value) ==
  LET hashIndex == hash(ht, key)
      item == [key |-> key, value |-> value]
  IN IF HashTable_search(ht, key) # Undefined
     THEN [ht |-> ht, result |-> FALSE]
     ELSE IF ht.collisionStrategy = "chaining"
     THEN [ht |-> [ht EXCEPT !.table[hashIndex] = Append(@, item)],
           result |-> TRUE]
     ELSE LET p == emptySlot(ht, hashIndex, probeStep(ht, key), 0)
          IN IF p = -1 THEN [ht |-> ht, result |-> FALSE]
             ELSE [ht |-> [ht EXCEPT !.table[p] = Append(@, item)],
                   result |-> TRUE]

\* a splice that removes nothing
splice1_Keep(bucket, i) == bucket

\* bucket.splice(i, 1)
splice1(bucket, i) ==
  SubSeq(bucket, 1, i - 1) \o SubSeq(bucket, i + 1, Len(bucket))

HashTable_delete(ht, key) ==
  LET hashIndex == hash(ht, key)
  IN IF ht.collisionStrategy = "chaining"
     THEN LET i == bucketIndex(ht.table[hashIndex], key, 1)
          IN IF i = 0 THEN [ht |-> ht, result |-> FALSE]
             ELSE [ht |-> [ht EXCEPT !.table[hashIndex] = splice1(@, i)],
                   result |-> TRUE]
     ELSE LET p == findSlot(ht, key, hashIndex, probeStep(ht, key), 0)
          IN IF p = -1 THEN [ht |-> ht, result |-> FALSE]
             ELSE [ht |-> [ht EXCEPT !.table[p] = <<>>], result |-> TRUE]

RECURSIVE traverseFrom(_, _)
traverseFrom(ht, i) ==
  IF i >= ht.size THEN <<>> ELSE ht.table[i] \o traverseFrom(ht, i + 1)

HashTable_traverse(ht) == traverseFrom(ht, 0)

(***************************************************************************)
(* SkipList.ts.  A reference to a SkipNode is Null, HeadRef or NodeRef(v):  *)
(* insert links a node for v only where the level-0 successor of the       *)
(* search position does not hold v, so a node is named by its value.       *)
(* nodes maps each linked node to its forward array (levels 0 .. its own    *)
(* level), head is the forward array of the head sentinel.                 *)
(***************************************************************************)
HeadRef == [head |-> TRUE]
NodeRef(v) == [value |-> v]

SkipList_new(maxLevel) ==
  [head |-> [i \in 0..maxLevel |-> Null], nodes |-> <<>>,
   maxLevel |-> maxLevel, level |-> 0, size |-> 0]

\* ref.forward
forwardOf(sl, ref) == IF ref = HeadRef THEN sl.head ELSE sl.nodes[ref.value]

\* ref.forward[i] = target
setForward(sl, ref, i, target) ==
  IF ref = HeadRef THEN [sl EXCEPT !.head[i] = target]
  ELSE [sl EXCEPT !.nodes[ref.value][i] = target]

\* the inner while loop of insert, search and delete at level i
RECURSIVE advance(_, _, _, _)
advance(sl, current, i, value) ==
  LET next == forwardOf(sl, current)[i]
  IN IF next # Null /\ next.value < value
     THEN advance(sl, next, i, value) ELSE current

\* the outer for loop, from level i down to 0, recording the update vector
RECURSIVE descend(_, _, _, _, _)
descend(sl, current, i, value, update) ==
  IF i < 0 THEN [current |-> current, update |-> update]
  ELSE LET c == advance(sl, current, i, value)
       IN descend(sl, c, i - 1, value, [update EXCEPT ![i] = c])

findPosition(sl, value) ==
  descend(sl, HeadRef, sl.level, value, [i \in 0..sl.maxLevel |-> Null])

SkipList_search(sl, value) ==
  LET current == forwardOf(sl, findPosition(sl, value).current)[0]
  IN current # Null /\ current.value = value

\* for (i = 0; i <= newLevel; i++) of insert
RECURSIVE linkNode(_, _, _, _, _)
linkNode(sl, update, value, i, newLevel) ==
  IF i > newLevel THEN sl
  ELSE LET s1 == [sl EXCEPT !.nodes[value][i] = forwardOf(sl, update[i])[i]]
           s2 == setForward(s1, update[i], i, NodeRef(value))
       IN linkNode(s2, update, value, i + 1, newLevel)

\* insert that counts the node once for every level it is linked at
SkipList_insert_CountsLevels(sl, value, newLevel) ==
  LET pos == findPosition(sl, value)
      current == forwardOf(sl, pos.current)[0]
  IN IF current # Null /\ current.value = value
     THEN [sl |-> sl, result |-> FALSE]
     ELSE LET update == [i \in 0..sl.maxLevel |->
                           IF i > sl.level /\ i <= newLevel THEN HeadRef
                           ELSE pos.update[i]]
              s1 == [sl EXCEPT !.level = Max(sl.level, newLevel),
                               !.nodes = [v \in DOMAIN sl.nodes \cup {value} |->
                                            IF v = value
                                            THEN [i \in 0..newLevel |-> Null]
                                            ELSE sl.nodes[v]]]
              s2 == linkNode(s1, update, value, 0, newLevel)
          IN [sl |-> [s2 EXCEPT !.size = sl.size + 1 + newLevel],
              result |-> TRUE]

\* newLevel is the outcome of randomLevel()
SkipList_insert(sl, value, newLevel) ==
  LET pos == findPosition(sl, value)
      current == forwardOf(sl, pos.current)[0]
  IN IF current # Null /\ current.value = value
     THEN [sl |-> sl, result |-> FALSE]
     ELSE LET update == [i \in 0..sl.maxLevel |->
                           IF i > sl.level /\ i <= newLevel THEN HeadRef
                           ELSE pos.update[i]]
              s1 == [sl EXCEPT !.level = Max(sl.level, newLevel),
                               !.nodes = [v \in DOMAIN sl.nodes \cup {value} |->
                                            IF v = value
                                            THEN [i \in 0..newLevel |-> Null]
                                            ELSE sl.nodes[v]]]
              s2 == linkNode(s1, update, value, 0, newLevel)
          IN [sl |-> [s2 EXCEPT !.size = sl.size + 1], result |-> TRUE]

\* delete that unlinks the node from level 0 only
unlinkNode_Level0Only(sl, update, current, i) ==
  IF forwardOf(sl, update[0])[0] # current THEN sl
  ELSE setForward(sl, update[0], 0, forwardOf(sl, current)[0])

\* for (i = 0; i <= this.level; i++) of delete, with its break
RECURSIVE unlinkNode(_, _, _, _)
unlinkNode(sl, update, current, i) ==
  IF i > sl.level THEN sl
  ELSE IF forwardOf(sl, update[i])[i] # current THEN sl
  ELSE unlinkNode(setForward(sl, update[i], i, forwardOf(sl, current)[i]),
                  update, current, i + 1)

\* delete that leaves the level as it is
shrinkLevel_Keep(sl) == sl

\* while (this.level > 0 && this.head.forward[this.level] === null)
RECURSIVE shrinkLevel(_)
shrinkLevel(sl) ==
  IF sl.level > 0 /\ sl.head[sl.level] = Null
  THEN shrinkLevel([sl EXCEPT !.level = sl.level - 1]) ELSE sl

\* some forward reference still leads to ref
referenced(sl, ref) ==
  \/ \E i \in DOMAIN sl.head : sl.head[i] = ref
  \/ \E v \in DOMAIN sl.nodes : \E i \in DOMAIN sl.nodes[v] : sl.nodes[v][i] = ref

\* a node no reference leads to is garbage
collect(sl) ==
  [sl EXCEPT !.nodes = [v \in {w \in DOMAIN sl.nodes : referenced(sl, NodeRef(w))}
                          |-> sl.nodes[v]]]

\* delete that forgets this.size--
SkipList_delete_NoSize(sl, value) ==
  LET pos == findPosition(sl, value)
      current == forwardOf(sl, pos.current)[0]
  IN IF current = Null \/ current.value # value
     THEN [sl |-> sl, result |-> FALSE]
     ELSE LET s1 == unlinkNode(sl, pos.update, current, 0)
              s2 == shrinkLevel(s1)
          IN [sl |-> collect(s2), result |-> TRUE]

SkipList_delete(sl, value) ==
  LET pos == findPosition(sl, value)
      current == forwardOf(sl, pos.current)[0]
  IN IF current = Null \/ current.value # value
     THEN [sl |-> sl, result |-> FALSE]
     ELSE LET s1 == unlinkNode(sl, pos.update, current, 0)
              s2 == shrinkLevel(s1)
          IN [sl |-> collect([s2 EXCEPT !.size = sl.size - 1]),
              result |-> TRUE]

RECURSIVE chain(_, _, _)
chain(sl, ref, i) ==
  IF ref = Null THEN <<>>
  ELSE <<ref.value>> \o chain(sl, forwardOf(sl, ref)[i], i)

SkipList_toArray(sl) == chain(sl, sl.head[0], 0)

SkipList_getSize(sl) == sl.size

(***************************************************************************)
(* SinglyLinkedList and DoublyLinkedList (src/unnamed/part_002).  The      *)
(* objects of a list live in nodes, a map from object identities to        *)
(* [value, next, prev]; a reference is Null or Ref(id).  A SinglyNode has  *)
(* no prev field (it stays Null) and a SinglyLinkedList no tail.           *)
(***************************************************************************)
Ref(id) == [id |-> id]

SinglyLinkedList_new ==
  [kind |-> "singly", head |-> Null, tail |-> Null, size |-> 0, nodes |-> <<>>]

DoublyLinkedList_new ==
  [kind |-> "doubly", head |-> Null, tail |-> Null, size |-> 0, nodes |-> <<>>]

\* new SinglyNode(value) / new DoublyNode(value): a fresh object
newNode(l) == CHOOSE i \in 1..(Cardinality(DOMAIN l.nodes) + 1) :
                i \notin DOMAIN l.nodes

allocate(l, value) ==
  [l EXCEPT !.nodes = [i \in DOMAIN l.nodes \cup {newNode(l)} |->
                         IF i = newNode(l)
                         THEN [value |-> value, next |-> Null, prev |-> Null]
                         ELSE l.nodes[i]]]

\* current = current.next, k times
RECURSIVE stepNext(_, _, _)
stepNext(l, ref, k) ==
  IF k <= 0 THEN ref ELSE stepNext(l, l.nodes[ref.id].next, k - 1)

\* current = current.prev, k times
RECURSIVE stepPrev(_, _, _)
stepPrev(l, ref, k) ==
  IF k <= 0 THEN ref ELSE stepPrev(l, l.nodes[ref.id].prev, k - 1)

\* the objects still reachable from head (and tail); the others are garbage
RECURSIVE reachNext(_, _)
reachNext(l, ref) ==
  IF ref = Null THEN {} ELSE {ref.id} \cup reachNext(l, l.nodes[ref.id].next)

release(l) ==
  [l EXCEPT !.nodes = [i \in reachNext(l, l.head) \cup
                             (IF l.tail = Null THEN {} ELSE {l.tail.id})
                         |-> l.nodes[i]]]

RECURSIVE List_toArrayFrom(_, _)
List_toArrayFrom(l, ref) ==
  IF ref = Null THEN <<>>
  ELSE <<l.nodes[ref.id].value>> \o List_toArrayFrom(l, l.nodes[ref.id].next)

List_toArray(l) == List_toArrayFrom(l, l.head)

List_getSize(l) == l.size

RECURSIVE List_searchFrom(_, _, _, _)
List_searchFrom(l, ref, value, index) ==
  IF ref = Null THEN -1
  ELSE IF l.nodes[ref.id].value = value THEN index
  ELSE List_searchFrom(l, l.nodes[ref.id].next, value, index + 1)

List_search(l, value) == List_searchFrom(l, l.head, value, 0)

SinglyLinkedList_insert(l, value, position) ==
  IF position < 0 \/ position > l.size THEN [list |-> l, result |-> FALSE]
  ELSE LET n  == newNode(l)
           l1 == allocate(l, value)
           l2 == IF position = 0
                 THEN [l1 EXCEPT !.nodes[n].next = l.head, !.head = Ref(n)]
                 ELSE LET current == stepNext(l1, l1.head, position - 1)
                      IN [l1 EXCEPT
                            !.nodes[n].next = l1.nodes[current.id].next,
                            !.nodes[current.id].next = Ref(n)]
       IN [list |-> [l2 EXCEPT !.size = l.size + 1], result |-> TRUE]

SinglyLinkedList_delete(l, position) ==
  IF position < 0 \/ position >= l.size \/ l.head = Null
  THEN [list |-> l, result |-> FALSE]
  ELSE LET l1 == IF position = 0
                 THEN [l EXCEPT !.head = l.nodes[l.head.id].next]
                 ELSE LET current == stepNext(l, l.head, position - 1)
                      IN IF current # Null /\ l.nodes[current.id].next # Null
                         THEN [l EXCEPT !.nodes[current.id].next =
                                 l.nodes[l.nodes[current.id].next.id].next]
                         ELSE l
       IN [list |-> release([l1 EXCEPT !.size = l.size - 1]), result |-> TRUE]

SinglyLinkedList_get(l, position) ==
  IF position < 0 \/ position >= l.size \/ l.head = Null THEN Null
  ELSE LET current == stepNext(l, l.head, position)
       IN IF current # Null THEN Defined(l.nodes[current.id].value) ELSE Null

\* while (current && current.value !== value) of moveToFront and transpose
RECURSIVE findWithPrev(_, _, _, _)
findWithPrev(l, prev, current, value) ==
  IF current # Null /\ l.nodes[current.id].value # value
  THEN findWithPrev(l, current, l.nodes[current.id].next, value)
  ELSE [prev |-> prev, current |-> current]

\* moveToFront that exchanges the values of the head and of the node found
moveToFront_SwapHead(l, value) ==
  IF l.head = Null THEN [list |-> l, result |-> FALSE]
  ELSE IF l.nodes[l.head.id].value = value THEN [list |-> l, result |-> TRUE]
  ELSE LET f == findWithPrev(l, Null, l.head, value)
       IN IF f.current = Null THEN [list |-> l, result |-> FALSE]
          ELSE [list |-> [l EXCEPT
                   !.nodes[l.head.id].value = value,
                   !.nodes[f.current.id].value = l.nodes[l.head.id].value],
                result |-> TRUE]

moveToFront(l, value) ==
  IF l.head = Null THEN [list |-> l, result |-> FALSE]
  ELSE IF l.nodes[l.head.id].value = value THEN [list |-> l, result |-> TRUE]
  ELSE LET f == findWithPrev(l, Null, l.head, value)
       IN IF f.current = Null THEN [list |-> l, result |-> FALSE]
          ELSE [list |-> [l EXCEPT
                   !.nodes = [i \in DOMAIN l.nodes |->
                      IF i = f.current.id
                      THEN [l.nodes[i] EXCEPT !.next = l.head]
                      ELSE IF i = f.prev.id
                      THEN [l.nodes[i] EXCEPT
                              !.next = l.nodes[f.current.id].next]
                      ELSE l.nodes[i]],
                   !.head = f.current],
                result |-> TRUE]

\* transpose whose loop does not advance prev
transpose_StalePrev(l, value) ==
  IF l.head = Null \/ l.nodes[l.head.id].next = Null
  THEN [list |-> l, result |-> FALSE]
  ELSE IF l.nodes[l.head.id].value = value THEN [list |-> l, result |-> FALSE]
  ELSE LET f == findWithPrev(l, l.head, l.nodes[l.head.id].next, value)
       IN IF f.current = Null THEN [list |-> l, result |-> FALSE]
          ELSE [list |-> [l EXCEPT
                   !.nodes[l.head.id].value = value,
                   !.nodes[f.current.id].value = l.nodes[l.head.id].value],
                result |-> TRUE]

\* transpose without the test for the value at the head
transpose_NoHeadCheck(l, value) ==
  IF l.head = Null \/ l.nodes[l.head.id].next = Null
  THEN [list |-> l, result |-> FALSE]
  ELSE LET f == findWithPrev(l, l.head, l.nodes[l.head.id].next, value)
       IN IF f.current = Null THEN [list |-> l, result |-> FALSE]
          ELSE LET temp == l.nodes[f.prev.id].value
               IN [list |-> [l EXCEPT
                      !.nodes[f.prev.id].value = l.nodes[f.current.id].value,
                      !.nodes[f.current.id].value = temp],
                   result |-> TRUE]

transpose(l, value) ==
  IF l.head = Null \/ l.nodes[l.head.id].next = Null
  THEN [list |-> l, result |-> FALSE]
  ELSE IF l.nodes[l.head.id].value = value THEN [list |-> l, result |-> FALSE]
  ELSE LET f == findWithPrev(l, l.head, l.nodes[l.head.id].next, value)
       IN IF f.current = Null THEN [list |-> l, result |-> FALSE]
          ELSE LET temp == l.nodes[f.prev.id].value
               IN [list |-> [l EXCEPT
                      !.nodes[f.prev.id].value = l.nodes[f.current.id].value,
                      !.nodes[f.current.id].value = temp],
                   result |-> TRUE]

DoublyLinkedList_insert(l, value, position) ==
  IF position < 0 \/ position > l.size THEN [list |-> l, result |-> FALSE]
  ELSE LET n  == newNode(l)
           l1 == allocate(l, value)
           l2 == IF l.size = 0
                 THEN [l1 EXCEPT !.head = Ref(n), !.tail = Ref(n)]
                 ELSE IF position = 0
                 THEN [l1 EXCEPT !.nodes[n].next = l.head,
                                 !.nodes[l.head.id].prev = Ref(n),
                                 !.head = Ref(n)]
                 ELSE IF position = l.size
                 THEN [l1 EXCEPT !.nodes[n].prev = l.tail,
                                 !.nodes[l.tail.id].next = Ref(n),
                                 !.tail = Ref(n)]
                 ELSE LET current == stepNext(l1, l1.head, position)
                          before_ == l1.nodes[current.id].prev
                      IN [l1 EXCEPT !.nodes[n].prev = before_,
                                    !.nodes[n].next = current,
                                    !.nodes[before_.id].next = Ref(n),
                                    !.nodes[current.id].prev = Ref(n)]
       IN [list |-> [l2 EXCEPT !.size = l.size + 1], result |-> TRUE]

\* delete from the beginning without this.head.prev = null
DoublyLinkedList_delete_KeepHeadPrev(l, position) ==
  IF position < 0 \/ position >= l.size \/ l.head = Null
  THEN [list |-> l, result |-> FALSE]
  ELSE LET l1 == IF l.size = 1
                 THEN [l EXCEPT !.head = Null, !.tail = Null]
                 ELSE IF position = 0
                 THEN [l EXCEPT !.head = l.nodes[l.head.id].next]
                 ELSE IF position = l.size - 1
                 THEN LET t == l.nodes[l.tail.id].prev
                      IN [l EXCEPT !.tail = t, !.nodes[t.id].next = Null]
                 ELSE LET current == stepNext(l, l.head, position)
                          p == l.nodes[current.id].prev
                          n == l.nodes[current.id].next
                      IN [l EXCEPT !.nodes[p.id].next = n,
                                   !.nodes[n.id].prev = p]
       IN [list |-> release([l1 EXCEPT !.size = l.size - 1]), result |-> TRUE]

DoublyLinkedList_delete(l, position) ==
  IF position < 0 \/ position >= l.size \/ l.head = Null
  THEN [list |-> l, result |-> FALSE]
  ELSE LET l1 == IF l.size = 1
                 THEN [l EXCEPT !.head = Null, !.tail = Null]
                 ELSE IF position = 0
                 THEN LET h == l.nodes[l.head.id].next
                      IN [l EXCEPT !.head = h, !.nodes[h.id].prev = Null]
                 ELSE IF position = l.size - 1
                 THEN LET t == l.nodes[l.tail.id].prev
                      IN [l EXCEPT !.tail = t, !.nodes[t.id].next = Null]
                 ELSE LET current == stepNext(l, l.head, position)
                          p == l.nodes[current.id].prev
                          n == l.nodes[current.id].next
                      IN [l EXCEPT !.nodes[p.id].next = n,
                                   !.nodes[n.id].prev = p]
       IN [list |-> release([l1 EXCEPT !.size = l.size - 1]), result |-> TRUE]

\* get without the upper range check
DoublyLinkedList_get_NoUpperCheck(l, position) ==
  IF position < 0 THEN Null
  ELSE LET current == IF 2 * position < l.size
                      THEN stepNext(l, l.head, position)
                      ELSE stepPrev(l, l.tail, (l.size - 1) - position)
       IN IF current # Null THEN Defined(l.nodes[current.id].value) ELSE Null

\* position < this.size / 2 is 2 * position < size
DoublyLinkedList_get(l, position) ==
  IF position < 0 \/ position >= l.size THEN Null
  ELSE LET current == IF 2 * position < l.size
                      THEN stepNext(l, l.head, position)
                      ELSE stepPrev(l, l.tail, (l.size - 1) - position)
       IN IF current # Null THEN Defined(l.nodes[current.id].value) ELSE Null

(***************************************************************************)
(* The callers.  DataStructuresView.executeOperation keeps one tree, hands *)
(* it to the selected engine and stores the returned newTree; a HashTable  *)
(* or a SkipList is constructed once and then driven through its methods.  *)
(***************************************************************************)
VARIABLES
  container,   \* what the caller drives: "bst", "avl", "hash", "skiplist",
               \* "list", or "bench" for the entry points under benchmark
  treeData,    \* the TreeNode the caller holds
  hashTable,   \* the fields of the HashTable instance
  skipList,    \* the fields of the SkipList instance
  linkedList,  \* the fields and nodes of the linked list instance
  before,      \* the container as it was given to the last call
  last,        \* the last call: operation, value, newValue, success
  tracked,     \* what the calls so far have reported about one key
  secondRun    \* the same calls made a second time: their container and result

vars ==
  <<container, treeData, hashTable, skipList, linkedList, before, last, tracked,
    secondRun>>

NoCall == [operation |-> "none", value |-> 0, newValue |-> 0, success |-> FALSE]
NoTable == [table |-> <<>>, size |-> 0, collisionStrategy |-> "none"]
NoList == [head |-> <<>>, nodes |-> <<>>, maxLevel |-> 0, level |-> 0, size |-> 0]
NoLinkedList ==
  [kind |-> "none", head |-> Null, tail |-> Null, size |-> 0, nodes |-> <<>>]
NotTracked == [key |-> 0, status |-> "none", value |-> 0]
NoSecondRun ==
  [algorithm |-> "none", sl |-> NoList, newTree |-> EmptyTree, success |-> FALSE]

Call(operation, value, newValue, success) ==
  [operation |-> operation, value |-> value, newValue |-> newValue,
   success |-> success]

runAlgorithm(alg, t, operation, value, newValue) ==
  IF alg = "bst" THEN runBSTAlgorithm(t, operation, value, newValue)
  ELSE runAVLAlgorithm(t, operation, value, newValue)

executeOperation(operation, value, newValue) ==
  LET result == runAlgorithm(container, treeData, operation, value, newValue)
  IN /\ container \in {"bst", "avl"}
     /\ last = NoCall
     /\ treeData' = result.newTree
     /\ before' = treeData
     /\ last' = Call(operation, value, newValue, result.success)
     /\ UNCHANGED <<container, hashTable, skipList, tracked, linkedList, secondRun>>

\* The caller is done with the result of the last call: executeOperation
\* clears the message and search result of the previous operation before it
\* runs the next one.  Every call starts from here.
ClearResult ==
  /\ last # NoCall
  /\ last' = NoCall
  /\ before' = (CASE container \in {"bst", "avl", "bench"} -> treeData
                  [] container = "hash" -> hashTable
                  [] container = "skiplist" -> skipList
                  [] OTHER -> linkedList)
  /\ secondRun' = IF container = "bench" THEN NoSecondRun ELSE secondRun
  /\ UNCHANGED <<container, treeData, hashTable, skipList, tracked, linkedList>>

TreeInit ==
  /\ linkedList = NoLinkedList
  /\ secondRun = NoSecondRun
  /\ container \in {"bst", "avl"}
  /\ treeData = EmptyTree
  /\ hashTable = NoTable
  /\ skipList = NoList
  /\ before = EmptyTree
  /\ last = NoCall
  /\ tracked = NotTracked

TreeInsert == \E v \in Values : executeOperation("insert", v, 0)
TreeDelete == \E v \in Values : executeOperation("delete", v, 0)
TreeSearch == \E v \in Values : executeOperation("search", v, 0)
TreeUpdate == \E v \in Values, nv \in Values : executeOperation("update", v, nv)
TreeBalance == executeOperation("balance", 0, 0)

TreeNext ==
  TreeInsert \/ TreeDelete \/ TreeSearch \/ TreeUpdate \/ TreeBalance
    \/ ClearResult
SpecTree == TreeInit /\ [][TreeNext]_vars

TreeInsDelNext == TreeInsert \/ TreeDelete \/ ClearResult
SpecTreeInsDel == TreeInit /\ [][TreeInsDelNext]_vars

\* what the calls have reported about tracked.key: "live" once an insert of
\* it returned true, "deleted" once a delete of it returned true, "none"
\* before that and after any other call on it that follows a delete
track(operation, key, value, result) ==
  IF key # tracked.key THEN tracked
  ELSE IF operation = "insert" /\ result
       THEN [tracked EXCEPT !.status = "live", !.value = value]
  ELSE IF operation = "delete" /\ result
       THEN [tracked EXCEPT !.status = "deleted"]
  ELSE IF tracked.status = "deleted" THEN [tracked EXCEPT !.status = "none"]
  ELSE tracked

HashInit ==
  /\ linkedList = NoLinkedList
  /\ secondRun = NoSecondRun
  /\ container = "hash"
  /\ treeData = EmptyTree
  /\ skipList = NoList
  /\ \E size \in Sizes, strategy \in Strategies :
       hashTable = HashTable_new(size, strategy)
  /\ before = hashTable
  /\ last = NoCall
  /\ tracked = [key |-> 0, status |-> "none", value |-> 0]

\* the key is stored as its own value, as runHashAlgorithm stores it
HashInsert ==
  \E key \in Keys :
    LET value == key
        r == HashTable_insert(hashTable, key, value)
    IN /\ container = "hash"
       /\ last = NoCall
       /\ hashTable' = r.ht
       /\ before' = hashTable
       /\ last' = Call("insert", key, value, r.result)
       /\ tracked' = track("insert", key, value, r.result)
       /\ UNCHANGED <<container, treeData, skipList, linkedList, secondRun>>

HashDelete ==
  \E key \in Keys :
    LET r == HashTable_delete(hashTable, key)
    IN /\ container = "hash"
       /\ last = NoCall
       /\ hashTable' = r.ht
       /\ before' = hashTable
       /\ last' = Call("delete", key, 0, r.result)
       /\ tracked' = track("delete", key, 0, r.result)
       /\ UNCHANGED <<container, treeData, skipList, linkedList, secondRun>>

HashSearch ==
  \E key \in Keys :
    /\ container = "hash"
    /\ last = NoCall
    /\ before' = hashTable
    /\ last' = Call("search", key, 0, HashTable_search(hashTable, key) # Undefined)
    /\ UNCHANGED <<container, treeData, hashTable, skipList, tracked, linkedList, secondRun>>

HashNext == HashInsert \/ HashDelete \/ HashSearch \/ ClearResult
SpecHash == HashInit /\ [][HashNext]_vars

SkipInit ==
  /\ linkedList = NoLinkedList
  /\ secondRun = NoSecondRun
  /\ container = "skiplist"
  /\ treeData = EmptyTree
  /\ hashTable = NoTable
  /\ skipList = SkipList_new(MaxLevel)
  /\ before = skipList
  /\ last = NoCall
  /\ tracked = NotTracked

SkipInsert ==
  \E value \in SkipValues, newLevel \in 0..skipList.maxLevel :
    LET r == SkipList_insert(skipList, value, newLevel)
    IN /\ container = "skiplist"
       /\ last = NoCall
       /\ skipList' = r.sl
       /\ before' = skipList
       /\ last' = Call("insert", value, 0, r.result)
       /\ UNCHANGED <<container, treeData, hashTable, tracked, linkedList, secondRun>>

SkipDelete ==
  \E value \in SkipValues :
    LET r == SkipList_delete(skipList, value)
    IN /\ container = "skiplist"
       /\ last = NoCall
       /\ skipList' = r.sl
       /\ before' = skipList
       /\ last' = Call("delete", value, 0, r.result)
       /\ UNCHANGED <<container, treeData, hashTable, tracked, linkedList, secondRun>>

SkipSearch ==
  \E value \in SkipValues :
    /\ container = "skiplist"
    /\ last = NoCall
    /\ before' = skipList
    /\ last' = Call("search", value, 0, SkipList_search(skipList, value))
    /\ UNCHANGED <<container, treeData, hashTable, skipList, tracked, linkedList, secondRun>>

SkipNext == SkipInsert \/ SkipDelete \/ SkipSearch \/ ClearResult
SpecSkip == SkipInit /\ [][SkipNext]_vars

(***************************************************************************)
(* Two SkipList instances driven through the same calls.  Each insert      *)
(* draws its own level in either run: in the first run randomLevel()       *)
(* returns any level of 0 .. maxLevel, in the second run the lowest or the *)
(* highest one.                                                            *)
(***************************************************************************)
PairInit ==
  /\ linkedList = NoLinkedList
  /\ container = "skiplist"
  /\ treeData = EmptyTree
  /\ hashTable = NoTable
  /\ skipList = SkipList_new(MaxLevel)
  /\ secondRun = [NoSecondRun EXCEPT !.algorithm = "skip-list",
                                     !.sl = SkipList_new(MaxLevel)]
  /\ before = skipList
  /\ last = NoCall
  /\ tracked = NotTracked

PairInsert ==
  \E value \in SkipValues :
    \E newLevel \in 0..skipList.maxLevel, otherLevel \in {0, secondRun.sl.maxLevel} :
      LET r == SkipList_insert(skipList, value, newLevel)
          o == SkipList_insert(secondRun.sl, value, otherLevel)
      IN /\ secondRun.algorithm = "skip-list"
         /\ last = NoCall
         /\ skipList' = r.sl
         /\ secondRun' = [secondRun EXCEPT !.sl = o.sl, !.success = o.result]
         /\ before' = skipList
         /\ last' = Call("insert", value, 0, r.result)
         /\ UNCHANGED <<container, treeData, hashTable, tracked, linkedList>>

PairDelete ==
  \E value \in SkipValues :
    LET r == SkipList_delete(skipList, value)
        o == SkipList_delete(secondRun.sl, value)
    IN /\ secondRun.algorithm = "skip-list"
       /\ last = NoCall
       /\ skipList' = r.sl
       /\ secondRun' = [secondRun EXCEPT !.sl = o.sl, !.success = o.result]
       /\ before' = skipList
       /\ last' = Call("delete", value, 0, r.result)
       /\ UNCHANGED <<container, treeData, hashTable, tracked, linkedList>>

PairSearch ==
  \E value \in SkipValues :
    /\ secondRun.algorithm = "skip-list"
    /\ last = NoCall
    /\ secondRun' = [secondRun EXCEPT
                       !.success = SkipList_search(secondRun.sl, value)]
    /\ before' = skipList
    /\ last' = Call("search", value, 0, SkipList_search(skipList, value))
    /\ UNCHANGED <<container, treeData, hashTable, skipList, tracked, linkedList>>

PairNext == PairInsert \/ PairDelete \/ PairSearch \/ ClearResult
SpecPair == PairInit /\ [][PairNext]_vars

(***************************************************************************)
(* The entry points as the benchmark drives them.  manualBenchmark calls   *)
(* one run*Algorithm entry point again and again on the same TreeNode and  *)
(* drops what it returns.  To tell the tree that was handed in from the    *)
(* copies the engines build, the TreeNode is laid out as objects: heap is  *)
(* the sequence of the objects allocated so far, Ref(id) refers to         *)
(* heap[id], and every object literal of the code allocates a new one.     *)
(***************************************************************************)
alloc(heap, object) ==
  [heap |-> Append(heap, object), ref |-> Ref(Len(heap) + 1)]

\* the TreeNode the caller holds, children before their parent
RECURSIVE storeTree(_, _)
storeTree(heap, uiNode) ==
  LET ch == uiNode.children
      c1 == IF Len(ch) > 0 THEN storeTree(heap, ch[1])
            ELSE [heap |-> heap, ref |-> Null]
      c2 == IF Len(ch) > 1 THEN storeTree(c1.heap, ch[2])
            ELSE [heap |-> c1.heap, ref |-> Null]
  IN alloc(c2.heap,
           [value |-> uiNode.value, isEmpty |-> uiNode.isEmpty,
            children |-> IF Len(ch) = 0 THEN <<>>
                         ELSE IF Len(ch) = 1 THEN <<c1.ref>>
                         ELSE <<c1.ref, c2.ref>>])

\* the TreeNode a reference leads to
RECURSIVE readTree(_, _)
readTree(heap, ref) ==
  LET o == heap[ref.id]
  IN [value |-> o.value, isEmpty |-> o.isEmpty,
      children |-> [i \in 1..Len(o.children) |-> readTree(heap, o.children[i])]]

\* the BSTNode or AVLNode a reference leads to
RECURSIVE readNode(_, _)
readNode(heap, ref) ==
  IF ref = Null THEN Null
  ELSE LET o == heap[ref.id]
       IN [o EXCEPT !.left = readNode(heap, o.left),
                    !.right = readNode(heap, o.right)]

\* the references an object holds
refsOf(object) ==
  IF "children" \in DOMAIN object
  THEN {object.children[i] : i \in 1..Len(object.children)}
  ELSE {object.left, object.right} \ {Null}

\* the ids of the objects that can be reached from ref
RECURSIVE reachable(_, _)
reachable(heap, ref) ==
  IF ref = Null THEN {}
  ELSE {ref.id} \cup UNION {reachable(heap, r) : r \in refsOf(heap[ref.id])}

\* a converter that moves the children out of the node it was given
convertToBSTFormat_objects_TakesChildren(heap, ref) ==
  IF ref = Null \/ heap[ref.id].isEmpty THEN [heap |-> heap, ref |-> Null]
  ELSE LET n == alloc(heap, [value |-> heap[ref.id].value,
                             left |-> Null, right |-> Null])
       IN [heap |-> [n.heap EXCEPT ![ref.id].children = <<>>], ref |-> n.ref]

\* convertToBSTFormat of Bst.ts on objects
RECURSIVE convertToBSTFormat_objects(_, _)
convertToBSTFormat_objects(heap, ref) ==
  IF ref = Null \/ heap[ref.id].isEmpty THEN [heap |-> heap, ref |-> Null]
  ELSE LET ch == heap[ref.id].children
           n  == alloc(heap, [value |-> heap[ref.id].value,
                              left |-> Null, right |-> Null])
           l  == IF Len(ch) > 0 /\ ~heap[ch[1].id].isEmpty
                 THEN convertToBSTFormat_objects(n.heap, ch[1])
                 ELSE [heap |-> n.heap, ref |-> Null]
           h1 == [l.heap EXCEPT ![n.ref.id].left = l.ref]
           r  == IF Len(ch) > 1 /\ ~heap[ch[2].id].isEmpty
                 THEN convertToBSTFormat_objects(h1, ch[2])
                 ELSE [heap |-> h1, ref |-> Null]
       IN [heap |-> [r.heap EXCEPT ![n.ref.id].right = r.ref], ref |-> n.ref]

\* convertToAVLFormat of Avl.ts on objects
RECURSIVE convertToAVLFormat_objects(_, _)
convertToAVLFormat_objects(heap, ref) ==
  IF ref = Null \/ heap[ref.id].isEmpty THEN [heap |-> heap, ref |-> Null]
  ELSE IF heap[ref.id].value = 0 /\ Len(heap[ref.id].children) = 0
  THEN [heap |-> heap, ref |-> Null]
  ELSE LET ch == heap[ref.id].children
           n  == alloc(heap, [value |-> heap[ref.id].value,
                              left |-> Null, right |-> Null, height |-> 1])
           l  == IF Len(ch) > 0
                 THEN convertToAVLFormat_objects(n.heap, ch[1])
                 ELSE [heap |-> n.heap, ref |-> Null]
           h1 == [l.heap EXCEPT ![n.ref.id].left = l.ref]
           r  == IF Len(ch) > 1
                 THEN convertToAVLFormat_objects(h1, ch[2])
                 ELSE [heap |-> h1, ref |-> Null]
           h2 == [r.heap EXCEPT ![n.ref.id].right = r.ref]
           heightOf(x) == IF x = Null THEN 0 ELSE h2[x.id].height
       IN [heap |-> IF Len(ch) > 0
                    THEN [h2 EXCEPT ![n.ref.id].height =
                            Max(heightOf(l.ref), heightOf(r.ref)) + 1]
                    ELSE h2,
           ref |-> n.ref]

\* const bstTree = convertToBSTFormat(treeData) / convertToAVLFormat(treeData)
convertInput(alg, heap, ref) ==
  IF alg = "bst" THEN convertToBSTFormat_objects(heap, ref)
  ELSE convertToAVLFormat_objects(heap, ref)

\* The TreeNode handed to runBSTAlgorithm or runAVLAlgorithm as it is when
\* the call returns.  The engine functions receive the converted root and
\* numbers only, so the objects they can write are the ones reachable from
\* that root and the ones they allocate.
inputAfter(alg, tree) ==
  LET s == storeTree(<<>>, tree)
  IN readTree(convertInput(alg, s.heap, s.ref).heap, s.ref)

\* the values the three wrappers feed their container: every node that is
\* not isEmpty, the parent first, then its children from left to right
RECURSIVE processNode(_)
processNode(node) ==
  IF node.isEmpty THEN <<>>
  ELSE LET ch == node.children
       IN <<node.value>>
            \o (IF Len(ch) > 0 THEN processNode(ch[1]) ELSE <<>>)
            \o (IF Len(ch) > 1 THEN processNode(ch[2]) ELSE <<>>)

\* draws[v] is the outcome of randomLevel() in the insert of v
RECURSIVE skipListOf(_, _, _, _)
skipListOf(sl, values, i, draws) ==
  IF i > Len(values) THEN sl
  ELSE skipListOf(SkipList_insert(sl, values[i], draws[values[i]]).sl,
                  values, i + 1, draws)

\* the SkipList is built with maxLevel MaxLevel (16 in the code)
runSkipListAlgorithm(tree, operation, value, draws) ==
  LET list == skipListOf(SkipList_new(MaxLevel), processNode(tree), 1, draws)
  IN [newTree |-> tree,
      success |->
        CASE operation = "insert" ->
               SkipList_insert(list, value, draws[value]).result
          [] operation = "search" -> SkipList_search(list, value)
          [] operation = "delete" -> SkipList_delete(list, value).result
          [] operation = "traverse" -> TRUE
          [] OTHER -> FALSE]

RECURSIVE hashTableOf(_, _, _)
hashTableOf(ht, values, i) ==
  IF i > Len(values) THEN ht
  ELSE hashTableOf(HashTable_insert(ht, values[i], values[i]).ht, values, i + 1)

BenchTableSize == 50

runHashAlgorithm(tree, operation, value) ==
  LET table == hashTableOf(HashTable_new(BenchTableSize, "chaining"),
                           processNode(tree), 1)
  IN [newTree |-> tree,
      success |->
        CASE operation = "insert" -> HashTable_insert(table, value, value).result
          [] operation = "search" -> HashTable_search(table, value) # Undefined
          [] operation = "delete" -> HashTable_delete(table, value).result
          [] operation = "traverse" -> TRUE
          [] OTHER -> FALSE]

\* insert(value) appends: the position defaults to this.size
RECURSIVE linkedListOf(_, _, _)
linkedListOf(l, values, i) ==
  IF i > Len(values) THEN l
  ELSE linkedListOf(SinglyLinkedList_insert(l, values[i], l.size).list,
                    values, i + 1)

runLinkedListAlgorithm(tree, operation, value) ==
  LET list == linkedListOf(SinglyLinkedList_new, processNode(tree), 1)
      deleteIndex == List_search(list, value)
  IN [newTree |-> tree,
      success |->
        CASE operation = "insert" ->
               SinglyLinkedList_insert(list, value, list.size).result
          [] operation = "search" -> List_search(list, value) # -1
          [] operation = "delete" ->
               IF deleteIndex # -1
               THEN SinglyLinkedList_delete(list, deleteIndex).result
               ELSE FALSE
          [] operation = "traverse" -> TRUE
          [] OTHER -> FALSE]

BenchValues == 0..MaxBench
TreeOperations == {"insert", "delete", "search", "update", "balance"}
WrapperOperations == {"insert", "search", "delete", "traverse", "update"}
Draws == [BenchValues -> 0..MaxLevel]
LowDraws == [v \in BenchValues |-> 0]

\* a call and the newTree it returned
Returned(operation, value, newValue, result) ==
  Call(operation, value, newValue, result.success)
    @@ [newTree |-> result.newTree]

BenchInit ==
  /\ linkedList = NoLinkedList
  /\ secondRun = NoSecondRun
  /\ container = "bench"
  /\ treeData = EmptyTree
  /\ hashTable = NoTable
  /\ skipList = NoList
  /\ before = EmptyTree
  /\ last = NoCall
  /\ tracked = NotTracked

\* the tree under test grows by one value
BenchGrow ==
  \E alg \in {"bst", "avl"}, value \in BenchValues :
    LET result == runAlgorithm(alg, treeData, "insert", value, 0)
    IN /\ container = "bench"
       /\ last = NoCall
       /\ result.success
       /\ treeData' = result.newTree
       /\ before' = result.newTree
       /\ UNCHANGED <<container, hashTable, skipList, linkedList, last,
                      tracked, secondRun>>

\* fn(); fn(); of manualBenchmark on runBSTAlgorithm or runAVLAlgorithm:
\* the second call receives the TreeNode as the first call left it
BenchTree ==
  \E alg \in {"bst", "avl"}, operation \in TreeOperations :
    \E value \in BenchValues :
      \E newValue \in IF operation = "update" THEN BenchValues ELSE {0} :
        LET first  == runAlgorithm(alg, treeData, operation, value, newValue)
            input  == inputAfter(alg, treeData)
            second == runAlgorithm(alg, input, operation, value, newValue)
        IN /\ container = "bench"
           /\ last = NoCall
           /\ treeData' = inputAfter(alg, input)
           /\ before' = treeData
           /\ last' = Returned(operation, value, newValue, first)
           /\ secondRun' = [NoSecondRun EXCEPT !.algorithm = alg,
                                               !.newTree = second.newTree,
                                               !.success = second.success]
           /\ UNCHANGED <<container, hashTable, skipList, linkedList, tracked>>

\* The wrappers read the TreeNode and write nothing into it.  The levels of
\* the first call are drawn freely, the second call draws 0 every time.
BenchSkipList ==
  \E operation \in WrapperOperations, value \in BenchValues, draws \in Draws :
    LET first  == runSkipListAlgorithm(treeData, operation, value, draws)
        second == runSkipListAlgorithm(treeData, operation, value, LowDraws)
    IN /\ container = "bench"
       /\ last = NoCall
       /\ before' = treeData
       /\ last' = Returned(operation, value, 0, first)
       /\ secondRun' = [NoSecondRun EXCEPT !.algorithm = "skip-list",
                                           !.newTree = second.newTree,
                                           !.success = second.success]
       /\ UNCHANGED <<container, treeData, hashTable, skipList, linkedList,
                      tracked>>

BenchHash ==
  \E operation \in WrapperOperations, value \in BenchValues :
    LET first  == runHashAlgorithm(treeData, operation, value)
        second == runHashAlgorithm(treeData, operation, value)
    IN /\ container = "bench"
       /\ last = NoCall
       /\ before' = treeData
       /\ last' = Returned(operation, value, 0, first)
       /\ secondRun' = [NoSecondRun EXCEPT !.algorithm = "hash",
                                           !.newTree = second.newTree,
                                           !.success = second.success]
       /\ UNCHANGED <<container, treeData, hashTable, skipList, linkedList,
                      tracked>>

BenchLinkedList ==
  \E operation \in WrapperOperations, value \in BenchValues :
    LET first  == runLinkedListAlgorithm(treeData, operation, value)
        second == runLinkedListAlgorithm(treeData, operation, value)
    IN /\ container = "bench"
       /\ last = NoCall
       /\ before' = treeData
       /\ last' = Returned(operation, value, 0, first)
       /\ secondRun' = [NoSecondRun EXCEPT !.algorithm = "linked-list",
                                           !.newTree = second.newTree,
                                           !.success = second.success]
       /\ UNCHANGED <<container, treeData, hashTable, skipList, linkedList,
                      tracked>>

BenchNext ==
  \/ BenchGrow \/ BenchTree \/ BenchSkipList \/ BenchHash \/ BenchLinkedList
  \/ ClearResult
SpecBench == BenchInit /\ [][BenchNext]_vars

\* a call on the linked list is recorded with its position as newValue; for
\* get, success says that the result is not null
ListInit ==
  /\ container = "list"
  /\ treeData = EmptyTree
  /\ hashTable = NoTable
  /\ skipList = NoList
  /\ linkedList \in {SinglyLinkedList_new, DoublyLinkedList_new}
  /\ secondRun = NoSecondRun
  /\ before = linkedList
  /\ last = NoCall
  /\ tracked = NotTracked

List_insert(l, value, position) ==
  IF l.kind = "singly" THEN SinglyLinkedList_insert(l, value, position)
  ELSE DoublyLinkedList_insert(l, value, position)

List_delete(l, position) ==
  IF l.kind = "singly" THEN SinglyLinkedList_delete(l, position)
  ELSE DoublyLinkedList_delete(l, position)

List_get(l, position) ==
  IF l.kind = "singly" THEN SinglyLinkedList_get(l, position)
  ELSE DoublyLinkedList_get(l, position)

ListInsert ==
  \E value \in ListValues, position \in Positions :
    LET r == List_insert(linkedList, value, position)
    IN /\ container = "list"
       /\ last = NoCall
       /\ Len(List_toArray(r.list)) <= MaxListLen
       /\ linkedList' = r.list
       /\ before' = linkedList
       /\ last' = Call("insert", value, position, r.result)
       /\ UNCHANGED <<container, treeData, hashTable, skipList, tracked, secondRun>>

ListDelete ==
  \E position \in Positions :
    LET r == List_delete(linkedList, position)
    IN /\ container = "list"
       /\ last = NoCall
       /\ linkedList' = r.list
       /\ before' = linkedList
       /\ last' = Call("delete", 0, position, r.result)
       /\ UNCHANGED <<container, treeData, hashTable, skipList, tracked, secondRun>>

ListGet ==
  \E position \in Positions :
    /\ container = "list"
    /\ last = NoCall
    /\ before' = linkedList
    /\ last' = Call("get", 0, position, List_get(linkedList, position) # Null)
    /\ UNCHANGED <<container, treeData, hashTable, skipList, linkedList, tracked, secondRun>>

ListSearch ==
  \E value \in ListValues :
    /\ container = "list"
    /\ last = NoCall
    /\ before' = linkedList
    /\ last' = Call("search", value, 0, List_search(linkedList, value) # -1)
    /\ UNCHANGED <<container, treeData, hashTable, skipList, linkedList, tracked, secondRun>>

ListMoveToFront ==
  \E value \in ListValues :
    LET r == moveToFront(linkedList, value)
    IN /\ container = "list"
       /\ linkedList.kind = "singly"
       /\ last = NoCall
       /\ linkedList' = r.list
       /\ before' = linkedList
       /\ last' = Call("moveToFront", value, 0, r.result)
       /\ UNCHANGED <<container, treeData, hashTable, skipList, tracked, secondRun>>

ListTranspose ==
  \E value \in ListValues :
    LET r == transpose(linkedList, value)
    IN /\ container = "list"
       /\ linkedList.kind = "singly"
       /\ last = NoCall
       /\ linkedList' = r.list
       /\ before' = linkedList
       /\ last' = Call("transpose", value, 0, r.result)
       /\ UNCHANGED <<container, treeData, hashTable, skipList, tracked, secondRun>>

ListNext ==
  ListInsert \/ ListDelete \/ ListGet \/ ListSearch \/ ListMoveToFront
    \/ ListTranspose \/ ClearResult
SpecList == ListInit /\ [][ListNext]_vars

Init == TreeInit \/ HashInit \/ SkipInit \/ ListInit
Next ==
  \/ TreeInsert \/ TreeDelete \/ TreeSearch \/ TreeUpdate \/ TreeBalance
  \/ HashInsert \/ HashDelete \/ HashSearch
  \/ SkipInsert \/ SkipDelete \/ SkipSearch
  \/ ListInsert \/ ListDelete \/ ListGet \/ ListSearch
  \/ ListMoveToFront \/ ListTranspose
  \/ ClearResult
Spec == Init /\ [][Next]_vars

(***************************************************************************)
(* Observations the properties are stated with.                            *)
(***************************************************************************)
\* the left and right child of a TreeNode (children[0], children[1])
UILeft(ui) == IF Len(ui.children) > 0 THEN ui.children[1] ELSE EmptyTree
UIRight(ui) == IF Len(ui.children) > 1 THEN ui.children[2] ELSE EmptyTree

RECURSIVE UIInOrder(_)
UIInOrder(ui) ==
  IF ui.isEmpty THEN <<>>
  ELSE UIInOrder(UILeft(ui)) \o <<ui.value>> \o UIInOrder(UIRight(ui))

RECURSIVE UIHeight(_)
UIHeight(ui) ==
  IF ui.isEmpty THEN 0
  ELSE 1 + Max(UIHeight(UILeft(ui)), UIHeight(UIRight(ui)))

RECURSIVE UIBalanced(_)
UIBalanced(ui) ==
  IF ui.isEmpty THEN TRUE
  ELSE /\ UIHeight(UILeft(ui)) - UIHeight(UIRight(ui)) \in {-1, 0, 1}
       /\ UIBalanced(UILeft(ui))
       /\ UIBalanced(UIRight(ui))

Elements(seq) == {seq[i] : i \in 1..Len(seq)}
StrictlyIncreasing(seq) == \A i \in 1..(Len(seq) - 1) : seq[i] < seq[i + 1]
UIValues(ui) == Elements(UIInOrder(ui))

IsTree == container \in {"bst", "avl"}
IsList == container = "list"
IsOpenAddressing ==
  container = "hash" /\ hashTable.collisionStrategy # "chaining"

\* the keys traverse() lists
StoredKeys(ht) == {item.key : item \in Elements(HashTable_traverse(ht))}

\* the result of a search for v on the container as it is now
FoundNow(v) ==
  CASE IsTree -> runAlgorithm(container, treeData, "search", v, 0).success
    [] container = "hash" -> HashTable_search(hashTable, v) # Undefined
    [] container = "skiplist" -> SkipList_search(skipList, v)
    [] OTHER -> List_search(linkedList, v) # -1

(***************************************************************************)
(* C1: from the empty tree, after any sequence of runAVLAlgorithm inserts   *)
(* and deletes, every node of the returned tree has subtree heights that   *)
(* differ by at most one.  (Checked under SpecTreeInsDel.)                 *)
(***************************************************************************)
C1_AVLBalanced == container = "avl" => UIBalanced(treeData)

(***************************************************************************)
(* C2: after any sequence of operations through runBSTAlgorithm or         *)
(* runAVLAlgorithm the in-order traversal of the returned tree is strictly *)
(* increasing.                                                             *)
(***************************************************************************)
C2_InOrderIncreasing == IsTree => StrictlyIncreasing(UIInOrder(treeData))

C2_Witness ==
  /\ container = "avl"
  /\ last.operation = "update" /\ last.success
  /\ Len(UIInOrder(treeData)) >= 4
  /\ UIInOrder(treeData) # UIInOrder(before)

(***************************************************************************)
(* C3: an insert of a value the tree already contains returns              *)
(* success=false and a tree with the same in-order traversal (and so the   *)
(* same node count) as the input.                                          *)
(***************************************************************************)
C3_DuplicateInsertRejected ==
  (IsTree /\ last.operation = "insert" /\ last.value \in UIValues(before))
    => (~last.success /\ UIInOrder(treeData) = UIInOrder(before))

(***************************************************************************)
(* C4: under every collision policy a key whose insert returned true and   *)
(* that has not since been successfully deleted is found by search, which  *)
(* returns its stored value.                                               *)
(***************************************************************************)
C4_InsertedKeyFound ==
  (container = "hash" /\ tracked.status = "live")
    => HashTable_search(hashTable, tracked.key) = Defined(tracked.value)

(***************************************************************************)
(* C5: once delete(k) has returned true, search(k) returns undefined after *)
(* any later inserts and deletes of keys other than k.                     *)
(***************************************************************************)
C5_DeletedKeyStaysAbsent ==
  (container = "hash" /\ tracked.status = "deleted")
    => HashTable_search(hashTable, tracked.key) = Undefined

(***************************************************************************)
(* C6: traverse() lists each key at most once, and an insert of a key that *)
(* is stored returns false and leaves traverse() unchanged.                *)
(***************************************************************************)
C6_DuplicateFreeMap ==
  container = "hash" =>
    /\ Cardinality(StoredKeys(hashTable)) = Len(HashTable_traverse(hashTable))
    /\ (last.operation = "insert" /\ last.value \in StoredKeys(before))
         => (~last.success
             /\ HashTable_traverse(hashTable) = HashTable_traverse(before))

(***************************************************************************)
(* C7: in a BST, an AVL tree, a SkipList and a HashTable, when delete(x)   *)
(* reports success a search for x on the resulting container reports not   *)
(* found.  (The linked lists delete by position.)                          *)
(***************************************************************************)
C7_DeleteThenAbsent ==
  (~IsList /\ last.operation = "delete" /\ last.success)
    => ~FoundNow(last.value)

\* a successful delete under open addressing that leaves a second copy of
\* the key in the table
C7_Witness ==
  /\ IsOpenAddressing
  /\ last.operation = "delete" /\ last.success
  /\ last.value \in StoredKeys(hashTable)

(***************************************************************************)
(* C8: after update(a, b) with a # b, a in the tree and b not in it, a     *)
(* search for b on the returned tree succeeds and a search for a fails.    *)
(***************************************************************************)
C8_UpdateRoundTrip ==
  (/\ IsTree
   /\ last.operation = "update"
   /\ last.value # last.newValue
   /\ last.value \in UIValues(before)
   /\ last.newValue \notin UIValues(before))
    => (FoundNow(last.newValue) /\ ~FoundNow(last.value))

(***************************************************************************)
(* C9: a delete of a value that is not in the container reports failure    *)
(* and changes nothing: the tree returned equals the input, the skip       *)
(* list's and the hash table's traversal and size are as before.           *)
(***************************************************************************)
C9_DeleteAbsentNoOp ==
  /\ (IsTree /\ last.operation = "delete"
        /\ last.value \notin UIValues(before))
       => (~last.success /\ treeData = before)
  /\ (container = "skiplist" /\ last.operation = "delete"
        /\ last.value \notin Elements(SkipList_toArray(before)))
       => (/\ ~last.success
           /\ SkipList_toArray(skipList) = SkipList_toArray(before)
           /\ SkipList_getSize(skipList) = SkipList_getSize(before))
  /\ (container = "hash" /\ last.operation = "delete"
        /\ last.value \notin StoredKeys(before))
       => (/\ ~last.success
           /\ HashTable_traverse(hashTable) = HashTable_traverse(before))

(***************************************************************************)
(* C10: under linear probing and double hashing an insert of a key that is *)
(* not stored, into a table whose slots are all occupied, returns false    *)
(* and leaves every slot unchanged.                                        *)
(***************************************************************************)
TableFull(ht) == \A i \in 0..(ht.size - 1) : Len(ht.table[i]) > 0

C10_FullTableInsertFails ==
  (/\ IsOpenAddressing
   /\ last.operation = "insert"
   /\ TableFull(before)
   /\ last.value \notin StoredKeys(before))
    => (~last.success /\ hashTable.table = before.table)

C10_Witness ==
  /\ IsOpenAddressing
  /\ hashTable.collisionStrategy = "double-hashing"
  /\ last.operation = "insert"
  /\ TableFull(before)
  /\ last.value \notin StoredKeys(before)
  /\ ~last.success

(***************************************************************************)
(* Observations on the linked lists.                                       *)
(***************************************************************************)
\* seq without its first occurrence of v
RECURSIVE RemoveFirst(_, _)
RemoveFirst(seq, v) ==
  IF seq = <<>> THEN <<>>
  ELSE IF Head(seq) = v THEN Tail(seq)
  ELSE <<Head(seq)>> \o RemoveFirst(Tail(seq), v)

\* the 1-based index of the first occurrence of v in seq, 0 if there is none
FirstIndex(seq, v) ==
  IF \E i \in 1..Len(seq) : seq[i] = v
  THEN CHOOSE i \in 1..Len(seq) :
         seq[i] = v /\ \A j \in 1..(i - 1) : seq[j] # v
  ELSE 0

\* seq with the elements at 1-based indices i and j exchanged
Exchanged(seq, i, j) ==
  [k \in 1..Len(seq) |-> IF k = i THEN seq[j] ELSE IF k = j THEN seq[i]
                         ELSE seq[k]]

(***************************************************************************)
(* C11: on a SinglyLinkedList and on a DoublyLinkedList, insert(v, p) with *)
(* p < 0 or p > size returns false, delete(p) with p < 0 or p >= size      *)
(* returns false, get(p) with p < 0 or p >= size returns null, and none of *)
(* them changes toArray() or getSize().                                    *)
(***************************************************************************)
C11_OutOfRangeRejected ==
  (/\ IsList
   /\ \/ last.operation = "insert"
         /\ (last.newValue < 0 \/ last.newValue > List_getSize(before))
      \/ last.operation \in {"delete", "get"}
         /\ (last.newValue < 0 \/ last.newValue >= List_getSize(before)))
    => (/\ ~last.success
        /\ List_toArray(linkedList) = List_toArray(before)
        /\ List_getSize(linkedList) = List_getSize(before))

\* get(size) was called on a doubly linked list of two or more elements
C11_Witness ==
  /\ IsList
  /\ linkedList.kind = "doubly"
  /\ last.operation = "get"
  /\ List_getSize(before) >= 2
  /\ last.newValue = List_getSize(before)
  /\ ~last.success

(***************************************************************************)
(* C12: on a SinglyLinkedList that contains v, moveToFront(v) returns true *)
(* and afterwards toArray() is v followed by the previous sequence without *)
(* its first occurrence of v; getSize() is unchanged.                      *)
(***************************************************************************)
C12_MoveToFront ==
  (/\ IsList
   /\ last.operation = "moveToFront"
   /\ last.value \in Elements(List_toArray(before)))
    => (/\ last.success
        /\ List_toArray(linkedList) =
             <<last.value>> \o RemoveFirst(List_toArray(before), last.value)
        /\ List_getSize(linkedList) = List_getSize(before))

\* v was moved from the last of three places, past two other elements
C12_Witness ==
  /\ IsList
  /\ last.operation = "moveToFront" /\ last.success
  /\ Len(List_toArray(before)) = 3
  /\ FirstIndex(List_toArray(before), last.value) = 3
  /\ List_toArray(before)[1] # List_toArray(before)[2]
  /\ List_toArray(linkedList) # List_toArray(before)

(***************************************************************************)
(* C13: on a SinglyLinkedList whose first occurrence of v is at index      *)
(* i >= 1, transpose(v) returns true and afterwards toArray() is the       *)
(* previous sequence with the elements at i-1 and i exchanged; getSize()   *)
(* is unchanged.                                                           *)
(***************************************************************************)
C13_Transpose ==
  (/\ IsList
   /\ last.operation = "transpose"
   /\ FirstIndex(List_toArray(before), last.value) >= 2)
    => LET i == FirstIndex(List_toArray(before), last.value)
       IN /\ last.success
          /\ List_toArray(linkedList) =
               Exchanged(List_toArray(before), i - 1, i)
          /\ List_getSize(linkedList) = List_getSize(before)

\* v was exchanged with a predecessor that is not the head
C13_Witness ==
  /\ IsList
  /\ last.operation = "transpose" /\ last.success
  /\ FirstIndex(List_toArray(before), last.value) = 3
  /\ List_toArray(linkedList)[2] = last.value


(***************************************************************************)
(* C14: after any sequence of SkipList inserts and deletes, whatever       *)
(* levels randomLevel() drew, the nodes on the level-k forward chain       *)
(* (k > 0) are, in the same order, nodes of the level-(k-1) chain.         *)
(***************************************************************************)
RECURSIVE IsSubsequence(_, _)
IsSubsequence(a, b) ==
  IF a = <<>> THEN TRUE
  ELSE IF b = <<>> THEN FALSE
  ELSE IF Head(a) = Head(b) THEN IsSubsequence(Tail(a), Tail(b))
  ELSE IsSubsequence(a, Tail(b))

\* the nodes reachable from the head along the forward pointers of level k
LevelChain(sl, k) == chain(sl, sl.head[k], k)

C14_LevelsNested ==
  container = "skiplist" =>
    \A k \in 1..skipList.maxLevel :
      IsSubsequence(LevelChain(skipList, k), LevelChain(skipList, k - 1))

\* a delete removed a node that was linked above level 0, and the list still
\* has a node at the top level and another one below it
C14_Witness ==
  /\ container = "skiplist"
  /\ last.operation = "delete" /\ last.success
  /\ last.value \in Elements(LevelChain(before, 1))
  /\ LevelChain(skipList, skipList.maxLevel) # <<>>
  /\ Len(LevelChain(skipList, 0)) > Len(LevelChain(skipList, 1))


(***************************************************************************)
(* C15: for BST and AVL, a delete of the value of a single-node tree       *)
(* returns success=true and the empty-tree sentinel; an insert(x) on that  *)
(* sentinel then succeeds for every x, returns the tree of the one node x, *)
(* and the next operation on that tree finds x.                            *)
(***************************************************************************)
C15_SoleRootDelete ==
  (IsTree /\ last.operation = "delete" /\ UIInOrder(before) = <<last.value>>)
    => /\ last.success
       /\ treeData = EmptyTree
       /\ \A x \in Values :
            LET r == runAlgorithm(container, treeData, "insert", x, 0)
            IN /\ r.success
               /\ r.newTree = UINode(x, <<>>)
               /\ runAlgorithm(container, r.newTree, "search", x, 0).success


(***************************************************************************)
(* C16: a search changes nothing: runBSTAlgorithm and runAVLAlgorithm      *)
(* return a newTree equal to the tree they were given, found or not, and   *)
(* SkipList.search and HashTable.search leave every field as it was.       *)
(***************************************************************************)
C16_SearchNonMutating ==
  last.operation = "search" =>
    /\ IsTree => treeData = before
    /\ container = "skiplist" => skipList = before
    /\ container = "hash" => hashTable = before


(***************************************************************************)
(* C17: runBSTAlgorithm update(old, new) returns success=false and the     *)
(* input tree if old is absent, if new # old is present, or if new is not  *)
(* strictly between the bounds that old's ancestors on the search path     *)
(* give; otherwise it succeeds and returns what delete(old) followed by    *)
(* insert(new) returns.                                                    *)
(***************************************************************************)
\* the values of the proper ancestors of v's node on the search path for v
RECURSIVE UIPathAncestors(_, _)
UIPathAncestors(ui, v) ==
  IF ui.isEmpty \/ ui.value = v THEN {}
  ELSE {ui.value} \cup
       UIPathAncestors(IF v < ui.value THEN UILeft(ui) ELSE UIRight(ui), v)

WithinAncestorBounds(ui, old, new) ==
  \A a \in UIPathAncestors(ui, old) :
    /\ a < old => a < new
    /\ a > old => new < a

UpdateRejected(ui, old, new) ==
  \/ old \notin UIValues(ui)
  \/ new # old /\ new \in UIValues(ui)
  \/ ~WithinAncestorBounds(ui, old, new)

C17_BSTUpdateRules ==
  (container = "bst" /\ last.operation = "update") =>
    IF UpdateRejected(before, last.value, last.newValue)
    THEN ~last.success /\ treeData = before
    ELSE /\ last.success
         /\ treeData =
              runBSTAlgorithm(
                runBSTAlgorithm(before, "delete", last.value, 0).newTree,
                "insert", last.newValue, 0).newTree

\* an update of a node below the root went through and changed the tree
C17_Witness ==
  /\ container = "bst"
  /\ last.operation = "update" /\ last.success
  /\ last.value # last.newValue
  /\ UIPathAncestors(before, last.value) # {}
  /\ Len(UIInOrder(before)) >= 3
  /\ treeData # before


(***************************************************************************)
(* C18: runAVLAlgorithm update(old, new) reports success exactly when      *)
(* runBSTAlgorithm update(old, new) on the same tree does, the rejection   *)
(* of a new value outside old's ancestor bounds included.                  *)
(***************************************************************************)
C18_AVLUpdateRejectsLikeBST ==
  (container = "avl" /\ last.operation = "update") =>
    last.success =
      runBSTAlgorithm(before, "update", last.value, last.newValue).success


(***************************************************************************)
(* C19: for a BST or AVL tree t and a value x in t, delete(x) returns a    *)
(* tree whose in-order traversal is that of t without x; when the node of  *)
(* x has two children, the node keeps its place (and its left subtree) and *)
(* holds the minimum of its right subtree, which that subtree has lost.    *)
(***************************************************************************)
\* the subtree of ui whose root the search for v ends at
RECURSIVE UISubtreeAt(_, _)
UISubtreeAt(ui, v) ==
  IF ui.isEmpty \/ ui.value = v THEN ui
  ELSE UISubtreeAt(IF v < ui.value THEN UILeft(ui) ELSE UIRight(ui), v)

\* the turns the search for v takes from the root of ui
RECURSIVE UIPathTo(_, _)
UIPathTo(ui, v) ==
  IF ui.isEmpty \/ ui.value = v THEN <<>>
  ELSE IF v < ui.value THEN <<"left">> \o UIPathTo(UILeft(ui), v)
  ELSE <<"right">> \o UIPathTo(UIRight(ui), v)

C19_DeleteRemovesExactlyX ==
  (IsTree /\ last.operation = "delete" /\ last.value \in UIValues(before)) =>
    LET x    == last.value
        node == UISubtreeAt(before, x)
    IN /\ UIInOrder(treeData) = RemoveFirst(UIInOrder(before), x)
       /\ (~UILeft(node).isEmpty /\ ~UIRight(node).isEmpty) =>
            LET m   == Head(UIInOrder(UIRight(node)))
                now == UISubtreeAt(treeData, m)
            IN /\ UIPathTo(treeData, m) = UIPathTo(before, x)
               /\ ~now.isEmpty
               /\ UILeft(now) = UILeft(node)
               /\ UIInOrder(UIRight(now)) = Tail(UIInOrder(UIRight(node)))


(***************************************************************************)
(* C20: runAVLAlgorithm balance succeeds; it returns the tree unchanged if *)
(* every node of it satisfies the balance condition, and otherwise a tree  *)
(* with the same in-order sequence in which every subtree has the middle   *)
(* element of its sequence as root, whose height is ceil(log2(n+1)) for n  *)
(* values and whose nodes all satisfy the balance condition.               *)
(***************************************************************************)
\* the least h with 2^h >= m
RECURSIVE CeilLog2(_)
CeilLog2(m) == IF m <= 1 THEN 0 ELSE 1 + CeilLog2((m + 1) \div 2)

\* every subtree is rooted at a middle element of its in-order sequence
RECURSIVE MiddleRooted(_)
MiddleRooted(ui) ==
  IF ui.isEmpty THEN TRUE
  ELSE LET n == Len(UIInOrder(ui))
           l == Len(UIInOrder(UILeft(ui)))
       IN /\ l + 1 \in {(n + 1) \div 2, (n + 2) \div 2}
          /\ MiddleRooted(UILeft(ui))
          /\ MiddleRooted(UIRight(ui))

C20_BalanceRebuilds ==
  (container = "avl" /\ last.operation = "balance") =>
    /\ last.success
    /\ IF UIBalanced(before) THEN treeData = before
       ELSE /\ UIInOrder(treeData) = UIInOrder(before)
            /\ MiddleRooted(treeData)
            /\ UIHeight(treeData) = CeilLog2(Len(UIInOrder(before)) + 1)
            /\ UIBalanced(treeData)


(***************************************************************************)
(* C21: in every tree the AVL insertNode and deleteNode return, rotations  *)
(* included, the stored height of each node is 1 + max of the heights of   *)
(* its children, an absent child counting 0.                               *)
(***************************************************************************)
RECURSIVE ExactHeight(_)
ExactHeight(node) ==
  IF node = Null THEN 0
  ELSE 1 + Max(ExactHeight(node.left), ExactHeight(node.right))

RECURSIVE HeightsExact(_)
HeightsExact(node) ==
  IF node = Null THEN TRUE
  ELSE /\ node.height = ExactHeight(node)
       /\ HeightsExact(node.left)
       /\ HeightsExact(node.right)

\* the tree insertNode or deleteNode returned in the last call
ReturnedAVLTree ==
  IF last.operation = "insert"
  THEN AVL_insertNode(convertToAVLFormat(before), last.value)
  ELSE AVL_deleteNode(convertToAVLFormat(before), last.value)

C21_StoredHeightsExact ==
  (container = "avl" /\ last.operation \in {"insert", "delete"}
     /\ last.success)
    => HeightsExact(ReturnedAVLTree)

\* a delete below the root was followed by a rotation at the root
C21_Witness ==
  /\ container = "avl"
  /\ last.operation = "delete" /\ last.success
  /\ last.value # before.value
  /\ treeData.value # before.value
  /\ Len(UIInOrder(treeData)) >= 3
  /\ ReturnedAVLTree.height = 2


(***************************************************************************)
(* C22: after any sequence of SkipList inserts and deletes, toArray() is   *)
(* strictly increasing, holds exactly the values inserted and not deleted  *)
(* (a call insert(v) leaves the earlier values and v, a call delete(v) the *)
(* earlier values without v), and getSize() is its length.                 *)
(***************************************************************************)
C22_SkipListSortedSet ==
  container = "skiplist" =>
    LET now == SkipList_toArray(skipList)
        was == Elements(SkipList_toArray(before))
    IN /\ StrictlyIncreasing(now)
       /\ SkipList_getSize(skipList) = Len(now)
       /\ last.operation = "insert" => Elements(now) = was \cup {last.value}
       /\ last.operation = "delete" => Elements(now) = was \ {last.value}
       /\ last.operation \in {"search", "none"} => Elements(now) = was

\* three values were inserted in some order and the middle one was deleted
C22_Witness ==
  /\ container = "skiplist"
  /\ last.operation = "delete" /\ last.success
  /\ Len(SkipList_toArray(before)) = 3
  /\ last.value = SkipList_toArray(before)[2]
  /\ Len(SkipList_toArray(skipList)) = 2
  /\ ~SkipList_search(skipList, last.value)

(***************************************************************************)
(* C23: after any sequence of SkipList inserts and deletes,                *)
(* 0 <= level <= maxLevel, head.forward[k] is null for every k > level,    *)
(* and head.forward[level] is not null when level > 0; a deleted node is   *)
(* on no level's chain any more.                                           *)
(***************************************************************************)
C23_LevelTight ==
  container = "skiplist" =>
    /\ skipList.level \in 0..skipList.maxLevel
    /\ \A k \in (skipList.level + 1)..skipList.maxLevel :
         skipList.head[k] = Null
    /\ skipList.level > 0 => skipList.head[skipList.level] # Null
    /\ (last.operation = "delete" /\ last.success) =>
         \A k \in 0..skipList.maxLevel :
           last.value \notin Elements(LevelChain(skipList, k))

\* a delete emptied the topmost levels and the level came down
C23_Witness ==
  /\ container = "skiplist"
  /\ last.operation = "delete" /\ last.success
  /\ before.level = before.maxLevel
  /\ skipList.level < before.level
  /\ skipList.size > 0


(***************************************************************************)
(* C24: after any sequence of valid and invalid DoublyLinkedList inserts   *)
(* and deletes, a.next is b exactly when b.prev is a, head.prev and        *)
(* tail.next are null, tail is the last node reached from head, and size   *)
(* is the length of the chain from head; in a SinglyLinkedList size is the *)
(* length of the chain.                                                    *)
(***************************************************************************)
\* the last node on the next chain that starts at ref (Null for no chain)
RECURSIVE LastFrom(_, _)
LastFrom(l, ref) ==
  IF ref = Null THEN Null
  ELSE IF l.nodes[ref.id].next = Null THEN ref
  ELSE LastFrom(l, l.nodes[ref.id].next)

C24_ListLinksConsistent ==
  IsList =>
    /\ List_getSize(linkedList) = Len(List_toArray(linkedList))
    /\ linkedList.kind = "doubly" =>
         /\ \A a \in DOMAIN linkedList.nodes, b \in DOMAIN linkedList.nodes :
              (linkedList.nodes[a].next = Ref(b))
                <=> (linkedList.nodes[b].prev = Ref(a))
         /\ \A a \in DOMAIN linkedList.nodes :
              /\ linkedList.nodes[a].next # Null =>
                   linkedList.nodes[a].next.id \in DOMAIN linkedList.nodes
              /\ linkedList.nodes[a].prev # Null =>
                   linkedList.nodes[a].prev.id \in DOMAIN linkedList.nodes
         /\ linkedList.head # Null =>
              linkedList.nodes[linkedList.head.id].prev = Null
         /\ linkedList.tail # Null =>
              linkedList.nodes[linkedList.tail.id].next = Null
         /\ linkedList.tail = LastFrom(linkedList, linkedList.head)

\* a node was deleted from the middle of a doubly linked list of three
C24_Witness ==
  /\ IsList
  /\ linkedList.kind = "doubly"
  /\ last.operation = "delete" /\ last.success
  /\ List_getSize(before) = 3
  /\ last.newValue = 1
  /\ linkedList.head # linkedList.tail


(***************************************************************************)
(* C25: under linear probing and double hashing the probe loops of an      *)
(* insert, search or delete call read at most capacity slots, on a full    *)
(* table and for absent keys too; the loop of search and delete ends at    *)
(* the first empty slot, at the key, or after capacity slots.              *)
(***************************************************************************)
SearchProbes(ht, key) ==
  findSlotProbes(ht, key, hash(ht, key), probeStep(ht, key), 0)

InsertProbes(ht, key) ==
  emptySlotProbes(ht, hash(ht, key), probeStep(ht, key), 0)

\* the i-th slot (from 0) of the probe sequence of key
ProbedSlot(ht, key, i) == (hash(ht, key) + i * probeStep(ht, key)) % ht.size

C25_ProbesBounded ==
  (IsOpenAddressing /\ last.operation \in {"insert", "search", "delete"}) =>
    LET key  == last.value
        n    == SearchProbes(before, key)
        stop == before.table[ProbedSlot(before, key, n - 1)]
    IN /\ n \in 1..before.size
       /\ InsertProbes(before, key) \in 1..before.size
       /\ \A i \in 0..(n - 2) :
            LET b == before.table[ProbedSlot(before, key, i)]
            IN Len(b) > 0 /\ b[1].key # key
       /\ n < before.size => (stop = <<>> \/ stop[1].key = key)

\* a search for an absent key on a full table
C25_Witness ==
  /\ IsOpenAddressing
  /\ last.operation = "search" /\ ~last.success
  /\ TableFull(before)
  /\ last.value \notin StoredKeys(before)
  /\ SearchProbes(before, last.value) = before.size


(***************************************************************************)
(* C26: moveToFront(v) and transpose(v) change neither toArray() nor the   *)
(* size when v is absent or the list has at most one element; both return  *)
(* false on an empty list and when v is absent, transpose returns false on *)
(* a one-element list and when v is at the head, and moveToFront returns   *)
(* true and changes nothing when v is at the head.                         *)
(***************************************************************************)
C26_SelfOrganizingNoOps ==
  (IsList /\ last.operation \in {"moveToFront", "transpose"}) =>
    LET was    == List_toArray(before)
        same   == /\ List_toArray(linkedList) = was
                  /\ List_getSize(linkedList) = List_getSize(before)
        absent == last.value \notin Elements(was)
        atHead == was # <<>> /\ was[1] = last.value
    IN /\ (absent \/ Len(was) <= 1) => same
       /\ absent => ~last.success
       /\ (last.operation = "transpose" /\ (Len(was) = 1 \/ atHead))
            => ~last.success
       /\ (last.operation = "moveToFront" /\ atHead)
            => (last.success /\ same)

\* transpose of the head value of a list that holds the value a second time
C26_Witness ==
  /\ IsList
  /\ last.operation = "transpose" /\ ~last.success
  /\ Len(List_toArray(before)) = 3
  /\ List_toArray(before)[1] = last.value
  /\ List_toArray(before)[3] = last.value
  /\ List_toArray(before)[2] # last.value


(***************************************************************************)
(* C27: for every x, zero and negative values included, and every tree     *)
(* earlier operations returned: when runBSTAlgorithm or runAVLAlgorithm    *)
(* insert(x) returns success=true, a search(x) on the returned newTree     *)
(* returns success=true.                                                   *)
(***************************************************************************)
C27_InsertedValuePersists ==
  (IsTree /\ last.operation = "insert" /\ last.success)
    => runAlgorithm(container, treeData, "search", last.value, 0).success


(***************************************************************************)
(* C28: under linear probing and double hashing, an insert of a key that   *)
(* is not stored succeeds while at least one slot of the table is empty;   *)
(* it returns false only when every slot is occupied.                      *)
(***************************************************************************)
C28_InsertFailsOnlyWhenFull ==
  (/\ IsOpenAddressing
   /\ last.operation = "insert"
   /\ last.value \notin StoredKeys(before)
   /\ ~TableFull(before))
    => last.success


(***************************************************************************)
(* C29: the results of a SkipList do not depend on the level draws: two    *)
(* runs of the same sequence of insert, delete and search calls whose      *)
(* inserts draw different levels return the same boolean at every call,    *)
(* and toArray() and getSize() are equal after every step.                 *)
(***************************************************************************)
C29_LevelDrawsUnobservable ==
  secondRun.algorithm = "skip-list" =>
    /\ last.operation # "none" => last.success = secondRun.success
    /\ SkipList_toArray(skipList) = SkipList_toArray(secondRun.sl)
    /\ SkipList_getSize(skipList) = SkipList_getSize(secondRun.sl)

\* the two runs hold the same two values in towers of different heights,
\* and a delete has just succeeded in both
C29_Witness ==
  /\ secondRun.algorithm = "skip-list"
  /\ last.operation = "delete" /\ last.success /\ secondRun.success
  /\ Len(SkipList_toArray(skipList)) = 2
  /\ skipList.level # secondRun.sl.level
  /\ \E v \in DOMAIN skipList.nodes :
       DOMAIN skipList.nodes[v] # DOMAIN secondRun.sl.nodes[v]
====
